---- MODULE Spec2Model ----
(***************************************************************************)
(* Verification model of the asymptote-api indexing and vector storage     *)
(* engine: the two vector stores (VectorStore with JSON metadata,          *)
(* VectorStoreV2 with SQLite metadata), the re-indexing job service, the   *)
(* index repair service, the upload handler, DocumentIndexer.search with   *)
(* its AI post-processing, and the text chunker.                           *)
(*                                                                         *)
(* Conventions.  Positions in sequences are 1-based here where the source  *)
(* is 0-based (position i here is ordinal i-1 there).  A document is       *)
(* identified by its content (document_id is a content hash), so a         *)
(* document always chunks to the same chunk ids and texts.  A vector       *)
(* records the text it was embedded from and whether it was L2-normalised. *)
(***************************************************************************)
EXTENDS Integers, Sequences, FiniteSets, TLC

VARIABLES
    mode,           \* settings.metadata_storage of the collection: "json" / "sqlite"
    vs,             \* the collection indexer's VectorStore instance (in memory)
    jdisk,          \* files under indexes/json: faiss.index, metadata.json, embeddings.npy
    v2_index,       \* VectorStoreV2.index (in memory)
    db_chunks,      \* rows of the chunks table of indexes/metadata.db, in ORDER BY id order
    v2disk_index,   \* file indexes/faiss.index written by VectorStoreV2.save
    call,           \* the add_chunks call in progress (NoCall when none is running)
    last_call,      \* the last store call that returned or raised, with its result
    jobs,           \* rows of the reindex_jobs table of the app database; the id is the position
    tasks,          \* asyncio tasks of this process running _run_reindex, by job id
    docs_dir,       \* the document files in the collection's documents directory
    service,        \* ReindexService.is_running and .current_job_id
    start_result,   \* outcome of the last start_reindex / start_collection_reindex call
    rd,             \* files of the repair service's directory: faiss.index, embeddings.npy
                    \* and the chunks table of metadata.db
    model_dim,      \* embedding dimension of the collection's model, and of its vectors
    repair_call,    \* the repair operation in progress, between its two file writes
    repair_result,  \* what the last repair service call returned
    dd,             \* the repair service's directory in detail: state of faiss.index and
                    \* embeddings.npy, schema and tables of metadata.db
    diag,           \* what the last diagnose / repair_documents_table call returned
    doc_files,      \* the saved copies in the collection's documents directory, by name
    upload_out,     \* the last upload request: its files and what became of each
    search_out,     \* the last DocumentIndexer.search call and its results
    ck              \* a TextChunker and its _chunk_text call: configuration, text, loop state

storeVars == <<mode, vs, jdisk, v2_index, db_chunks, v2disk_index, call, last_call>>

reindexVars == <<jobs, tasks, docs_dir, service, start_result>>

repairVars == <<rd, model_dim, repair_call, repair_result>>

diagVars == <<dd, diag>>

uploadVars == <<doc_files, upload_out>>

searchVars == <<search_out>>

chunkVars == <<ck>>

vars == <<storeVars, reindexVars, repairVars, diagVars, uploadVars, searchVars, chunkVars>>

(***************************************************************************)
(* Bounds of the model.                                                    *)
(***************************************************************************)
NumDocs == 2        \* distinct document contents
MaxVectors == 3     \* cap on the number of vectors held by an index
MaxJobs == 2        \* cap on the number of rows of reindex_jobs
BatchSize == 2      \* chunks per embedding batch of rebuild_from_metadata

\* An optional sequence: Python None / a file that does not exist, or the rows held
Nothing == [has |-> FALSE, rows |-> <<>>]
Some(rows) == [has |-> TRUE, rows |-> rows]
None == Nothing          \* Python None
Missing == Nothing       \* a file that does not exist

Docs == 1..NumDocs

Min(a, b) == IF a <= b THEN a ELSE b

RECURSIVE PosWhere(_, _, _)
\* ascending positions i >= from of seq s with Test(s[i])
PosWhere(s, Test(_), from) ==
    IF from > Len(s) THEN <<>>
    ELSE (IF Test(s[from]) THEN <<from>> ELSE <<>>) \o PosWhere(s, Test, from + 1)

Pick(s, pos) == [k \in 1..Len(pos) |-> s[pos[k]]]

Range(s) == {s[i] : i \in 1..Len(s)}

(***************************************************************************)
(* Chunker and embedding service, as far as the stores depend on them.     *)
(***************************************************************************)
\* number of chunks the chunker emits for the content of document d
ChunkCount(d) == d

\* TextChunker.chunk_document: chunk ids are determined by document id and position
chunk_document(d) ==
    [k \in 1..ChunkCount(d) |->
        [chunk_id |-> <<d, k>>, document_id |-> d, text |-> <<"text", d, k>>]]

\* EmbeddingService.embed_texts: one raw vector per text, a function of the text
embed_texts(texts) == [i \in 1..Len(texts) |-> [of |-> texts[i], unit |-> FALSE]]

\* embeddings / np.linalg.norm(embeddings, axis=1, keepdims=True)
l2_normalize(E) == [i \in 1..Len(E) |-> [E[i] EXCEPT !.unit = TRUE]]

Texts(chunks) == [i \in 1..Len(chunks) |-> chunks[i].text]

\* faiss IndexFlatIP.search: the k best positions by inner product; a vector of
\* the query's own text scores highest, ties are broken by position
faiss_search(index, query, k) ==
    LET Same(v) == v.of = query.of
        Other(v) == v.of # query.of
        ranked == PosWhere(index, Same, 1) \o PosWhere(index, Other, 1)
    IN  SubSeq(ranked, 1, Min(k, Len(ranked)))

(***************************************************************************)
(* VectorStore (JSON metadata), services/vector_store.py                   *)
(***************************************************************************)
VS_rebuild_document_map(metadata) ==
    [d \in {metadata[i].document_id : i \in 1..Len(metadata)} |->
        LET OfDoc(c) == c.document_id = d IN PosWhere(metadata, OfDoc, 1)]

VS_empty ==
    [index |-> <<>>, metadata |-> <<>>, embeddings |-> None, document_map |-> <<>>]

VS_load_or_create_index(disk) ==
    IF disk.index.has /\ disk.metadata.has
    THEN [index |-> disk.index.rows,
          metadata |-> disk.metadata.rows,
          embeddings |-> IF disk.embeddings.has THEN Some(disk.embeddings.rows) ELSE None,
          document_map |-> VS_rebuild_document_map(disk.metadata.rows)]
    ELSE VS_empty

\* add_chunks, first statements: validate, normalise, self.index.add(...)
VS_add_chunks_index(s, chunks, embeddings) ==
    [s EXCEPT !.index = @ \o l2_normalize(embeddings)]

\* add_chunks, remaining statements: store embeddings, append metadata, document map
VS_add_chunks_rest(s, chunks, embeddings) ==
    LET metadata == s.metadata \o chunks
    IN  [s EXCEPT !.embeddings = IF @ = None THEN Some(l2_normalize(embeddings))
                                 ELSE Some(@.rows \o l2_normalize(embeddings)),
                  !.metadata = metadata,
                  !.document_map = VS_rebuild_document_map(metadata)]

VS_delete_raises(s, d) ==
    /\ d \in DOMAIN s.document_map
    /\ s.embeddings # None
    /\ \E i \in 1..Len(s.metadata) :
          /\ i \notin Range(s.document_map[d])
          /\ i > Len(s.embeddings.rows)

\* delete_document: the store after the call
VS_delete_document(s, d) ==
    IF d \notin DOMAIN s.document_map \/ VS_delete_raises(s, d) THEN s
    ELSE LET indices_to_delete == Range(s.document_map[d])
             keep == LET Kept(i) == i \notin indices_to_delete
                     IN  PosWhere([i \in 1..Len(s.metadata) |-> i], Kept, 1)
             new_metadata == Pick(s.metadata, keep)
             new_embeddings == IF s.embeddings # None THEN Pick(s.embeddings.rows, keep)
                               ELSE <<>>
         IN  [index |-> IF Len(new_embeddings) > 0 THEN new_embeddings ELSE <<>>,
              metadata |-> new_metadata,
              embeddings |-> IF Len(new_embeddings) > 0 THEN Some(new_embeddings) ELSE None,
              document_map |-> VS_rebuild_document_map(new_metadata)]

\* delete_document: the value returned (num_deleted)
VS_delete_returns(s, d) ==
    IF d \notin DOMAIN s.document_map THEN 0
    ELSE Cardinality(Range(s.document_map[d]))

VS_save(s, disk) ==
    [index |-> Some(s.index),
     metadata |-> Some(s.metadata),
     embeddings |-> IF s.embeddings # None THEN Some(s.embeddings.rows) ELSE disk.embeddings]

VS_search(s, query, top_k) ==
    IF Len(s.index) = 0 THEN [raised |-> FALSE, hits |-> <<>>]
    ELSE LET hits == faiss_search(s.index, query, Min(top_k, Len(s.index)))
         IN  IF \E j \in 1..Len(hits) : hits[j] > Len(s.metadata)
             THEN [raised |-> TRUE, hits |-> <<>>]      \* IndexError at self.metadata[idx]
             ELSE [raised |-> FALSE,
                   hits |-> [j \in 1..Len(hits) |->
                      [ordinal |-> hits[j],
                       chunk_id |-> s.metadata[hits[j]].chunk_id,
                       document_id |-> s.metadata[hits[j]].document_id]]]

(***************************************************************************)
(* MetadataStore (SQLite) and VectorStoreV2                                *)
(***************************************************************************)
\* MetadataStore.add_chunks: INSERT OR REPLACE on the UNIQUE chunk_id removes a
\* row with the same chunk_id and appends the new row under a fresh id
MS_add_chunks(rows, chunks) ==
    LET Stays(r) == \A i \in 1..Len(chunks) : chunks[i].chunk_id # r.chunk_id
    IN  SelectSeq(rows, Stays) \o chunks

MS_delete_document(rows, d) ==
    LET Other(r) == r.document_id # d IN SelectSeq(rows, Other)

MS_deleted_count(rows, d) ==
    LET OfDoc(r) == r.document_id = d IN Len(SelectSeq(rows, OfDoc))

MS_get_total_chunks(rows) == Len(rows)

\* SELECT ... ORDER BY id LIMIT 1 OFFSET index: the row, or no row (None)
MS_get_chunk_by_index(rows, i) == IF i \in 1..Len(rows) THEN Some(<<rows[i]>>) ELSE None

V2_add_chunks_index(index, chunks, embeddings) == index \o l2_normalize(embeddings)

V2_search(index, rows, query, top_k) ==
    IF Len(index) = 0 THEN [raised |-> FALSE, hits |-> <<>>]
    ELSE LET hits == faiss_search(index, query, Min(top_k, Len(index)))
             Found(h) == MS_get_chunk_by_index(rows, h) # None
             found == PosWhere(hits, Found, 1)
             chunk(j) == MS_get_chunk_by_index(rows, hits[found[j]]).rows[1]
         IN  [raised |-> FALSE,
              hits |-> [j \in 1..Len(found) |->
                 [ordinal |-> hits[found[j]],
                  chunk_id |-> chunk(j).chunk_id,
                  document_id |-> chunk(j).document_id]]]

(***************************************************************************)
(* Views shared by both stores                                             *)
(***************************************************************************)
IndexOf == IF mode = "json" THEN vs.index ELSE v2_index
index_count == Len(IndexOf)
metadata_count == IF mode = "json" THEN Len(vs.metadata) ELSE MS_get_total_chunks(db_chunks)

NoCall == [op |-> "none", doc |-> 0]
NoResult == [op |-> "none", doc |-> 0, ret |-> 0, raised |-> FALSE, hits |-> <<>>]

StoreInit ==
    /\ mode \in {"json", "sqlite"}
    /\ jdisk = [index |-> Missing, metadata |-> Missing, embeddings |-> Missing]
    /\ vs = VS_load_or_create_index(jdisk)
    /\ v2_index = <<>>
    /\ db_chunks = <<>>
    /\ v2disk_index = Missing
    /\ call = NoCall
    /\ last_call = NoResult

\* a process that has started no re-indexing job
ReindexIdle ==
    /\ jobs = <<>>
    /\ tasks = <<>>
    /\ docs_dir = {}
    /\ service = [is_running |-> FALSE, current_job_id |-> 0]
    /\ start_result = [outcome |-> "none", job_id |-> 0, names |-> 0]

\* a repair directory without files, and a process that has run no repair
DefaultEmbeddingDim == 384      \* default of the embedding_dim parameters
EmptyDir == [index |-> Missing, emb |-> Missing, chunks |-> Missing]
NoPair == [index |-> Missing, emb |-> Missing]
NoRepairCall == [op |-> "none", before |-> EmptyDir, new_embeddings |-> <<>>]
NoRepairResult ==
    [op |-> "none", success |-> FALSE, error |-> "", status |-> "", before |-> EmptyDir,
     target |-> NoPair]

RepairIdle ==
    /\ rd = EmptyDir
    /\ model_dim = DefaultEmbeddingDim
    /\ repair_call = NoRepairCall
    /\ repair_result = NoRepairResult

\* the same directory seen in detail: a file is absent, unreadable or readable
\* with a number of rows; metadata.db has tables, columns and a version marker
AbsentFile == [state |-> "absent", count |-> 0]
AbsentDb ==
    [state |-> "absent", schema_info |-> FALSE, version |-> "", v3_columns |-> FALSE,
     chunks |-> <<>>, documents |-> {}]
AbsentDir == [index |-> AbsentFile, emb |-> AbsentFile, db |-> AbsentDb]
NoDiagResult ==
    [status |-> "unknown", faiss_count |-> 0, metadata_count |-> 0, embeddings_count |-> 0,
     documents_count |-> 0, orphaned_chunks_count |-> 0, issues |-> <<>>,
     recommendations |-> <<>>]
NoDiag == [op |-> "none", success |-> FALSE, result |-> NoDiagResult, before |-> AbsentDir]

DiagIdle ==
    /\ dd = AbsentDir
    /\ diag = NoDiag

\* an empty documents directory, no upload request and no search made
Filenames == {"a.txt", "b.txt"}
AbsentContent == [kind |-> "absent", doc |-> 0]
NoUpload == [files |-> <<>>, results |-> <<>>, before |-> {}, status |-> 0, saved |-> FALSE]
NoSearch ==
    [top_k |-> 0, rerank |-> FALSE, reply |-> [kind |-> "none", indices |-> <<>>],
     synthesize |-> FALSE, synth |-> "none",
     raised |-> FALSE, hits |-> <<>>, results |-> <<>>, synthesis |-> "None"]

UploadIdle ==
    /\ doc_files = [name \in Filenames |-> AbsentContent]
    /\ upload_out = NoUpload

SearchIdle == search_out = NoSearch

\* no chunker at work
EmptyText == [len |-> 0, fill |-> "x", marks |-> <<>>]
NoChunking ==
    [chunk_size |-> 0, chunk_overlap |-> 0, text |-> EmptyText, pc |-> "idle",
     start |-> 0, chunks |-> <<>>]

ChunkIdle == ck = NoChunking

(***************************************************************************)
(* Store operations.  add_chunks is split at the point between the index   *)
(* append and the metadata write, where the remaining statements can raise *)
(* (sqlite3 error in MetadataStore.add_chunks, MemoryError in np.vstack).  *)
(***************************************************************************)
AddChunksIndex(d) ==
    /\ call = NoCall
    /\ index_count + ChunkCount(d) <= MaxVectors
    /\ LET chunks == chunk_document(d)
           embeddings == embed_texts(Texts(chunks))
       IN  /\ Len(chunks) = Len(embeddings)
           /\ Len(chunks) # 0
           /\ IF mode = "json"
              THEN /\ vs' = VS_add_chunks_index(vs, chunks, embeddings)
                   /\ UNCHANGED v2_index
              ELSE /\ v2_index' = V2_add_chunks_index(v2_index, chunks, embeddings)
                   /\ UNCHANGED vs
    /\ call' = [op |-> "add_chunks", doc |-> d]
    /\ UNCHANGED <<mode, jdisk, db_chunks, v2disk_index, last_call>>
    /\ UNCHANGED <<reindexVars, repairVars, diagVars, uploadVars, searchVars, chunkVars>>

AddChunksMetadata ==
    /\ call # NoCall
    /\ LET chunks == chunk_document(call.doc)
           embeddings == embed_texts(Texts(chunks))
       IN  IF mode = "json"
           THEN /\ vs' = VS_add_chunks_rest(vs, chunks, embeddings)
                /\ UNCHANGED db_chunks
           ELSE /\ db_chunks' = MS_add_chunks(db_chunks, chunks)
                /\ UNCHANGED vs
    /\ last_call' = [op |-> "add_chunks", doc |-> call.doc, ret |-> 0, raised |-> FALSE, hits |-> <<>>]
    /\ call' = NoCall
    /\ UNCHANGED <<mode, jdisk, v2_index, v2disk_index>>
    /\ UNCHANGED <<reindexVars, repairVars, diagVars, uploadVars, searchVars, chunkVars>>

AddChunksRaise ==
    /\ call # NoCall
    /\ last_call' = [op |-> "add_chunks", doc |-> call.doc, ret |-> 0, raised |-> TRUE, hits |-> <<>>]
    /\ call' = NoCall
    /\ UNCHANGED <<mode, vs, jdisk, v2_index, db_chunks, v2disk_index>>
    /\ UNCHANGED <<reindexVars, repairVars, diagVars, uploadVars, searchVars, chunkVars>>

DeleteDocument(d) ==
    /\ call = NoCall
    /\ IF mode = "json"
       THEN /\ vs' = VS_delete_document(vs, d)
            /\ last_call' = [op |-> "delete_document", doc |-> d,
                             ret |-> VS_delete_returns(vs, d),
                             raised |-> VS_delete_raises(vs, d), hits |-> <<>>]
            /\ UNCHANGED db_chunks
       ELSE /\ db_chunks' = MS_delete_document(db_chunks, d)
            /\ last_call' = [op |-> "delete_document", doc |-> d,
                             ret |-> MS_deleted_count(db_chunks, d),
                             raised |-> FALSE, hits |-> <<>>]
            /\ UNCHANGED vs
    /\ UNCHANGED <<mode, jdisk, v2_index, v2disk_index, call>>
    /\ UNCHANGED <<reindexVars, repairVars, diagVars, uploadVars, searchVars, chunkVars>>

Save ==
    /\ call = NoCall
    /\ IF mode = "json"
       THEN /\ jdisk' = VS_save(vs, jdisk)
            /\ UNCHANGED v2disk_index
       ELSE /\ v2disk_index' = Some(v2_index)
            /\ UNCHANGED jdisk
    /\ UNCHANGED <<mode, vs, v2_index, db_chunks, call, last_call>>
    /\ UNCHANGED <<reindexVars, repairVars, diagVars, uploadVars, searchVars, chunkVars>>

Search(d, k, top_k) ==
    /\ call = NoCall
    /\ LET query == embed_texts(<<chunk_document(d)[k].text>>)[1]
           found == IF mode = "json" THEN VS_search(vs, query, top_k)
                    ELSE V2_search(v2_index, db_chunks, query, top_k)
       IN  last_call' = [op |-> "search", doc |-> d, ret |-> Len(found.hits),
                         raised |-> found.raised, hits |-> found.hits]
    /\ UNCHANGED <<mode, vs, jdisk, v2_index, db_chunks, v2disk_index, call>>
    /\ UNCHANGED <<reindexVars, repairVars, diagVars, uploadVars, searchVars, chunkVars>>

StoreNext ==
    \/ \E d \in Docs : AddChunksIndex(d)
    \/ AddChunksMetadata
    \/ AddChunksRaise
    \/ \E d \in Docs : DeleteDocument(d)
    \/ Save
    \/ \E d \in Docs : \E k \in 1..ChunkCount(d) : \E top_k \in {1, MaxVectors} :
          Search(d, k, top_k)

(***************************************************************************)
(* Re-indexing jobs: AppDatabase.reindex_jobs and ReindexService.          *)
(* The service runs on one asyncio event loop: a coroutine runs without    *)
(* interruption until its next await, so each action below is one such run *)
(* and a worker at "loop" holds the event loop until it suspends.          *)
(***************************************************************************)
RECURSIVE SetToSeq(_)
\* the elements of a finite set of integers in ascending order
SetToSeq(S) ==
    IF S = {} THEN <<>>
    ELSE LET m == CHOOSE x \in S : \A y \in S : x <= y
         IN  <<m>> \o SetToSeq(S \ {m})

\* AppDatabase.create_reindex_job: INSERT ... VALUES ('pending', ...)
create_reindex_job(rows) == Append(rows, [status |-> "pending", error |-> ""])

\* an UPDATE without its WHERE id = ? clause: C25 must not survive it
update_reindex_job_EveryRow(rows, job_id, status, error) ==
    [j \in DOMAIN rows |-> [status |-> status, error |-> error]]

\* AppDatabase.update_reindex_job with status (and error) given
update_reindex_job(rows, job_id, status, error) ==
    [rows EXCEPT ![job_id] = [status |-> status, error |-> error]]

\* a WHERE clause that overlooks pending jobs: C4 must not survive it
IsActiveStatus_RunningOnly(status) == status = "running"

\* the WHERE clause of get_active_reindex_job
IsActiveStatus(status) == status \in {"pending", "running"}

\* AppDatabase.get_active_reindex_job: ... ORDER BY id DESC LIMIT 1; 0 stands for None
get_active_reindex_job(rows) ==
    LET active == {j \in 1..Len(rows) : IsActiveStatus(rows[j].status)}
    IN  IF active = {} THEN 0 ELSE CHOOSE j \in active : \A k \in active : k <= j

\* the tasks once the coroutine of job j has returned
TaskDone(j) == [k \in DOMAIN tasks \ {j} |-> tasks[k]]

\* VectorStore.clear_index: the store after the call (before its save)
VS_clear_index(s) == VS_empty

ActiveJobs == {j \in 1..Len(jobs) : jobs[j].status \in {"pending", "running"}}

\* no coroutine is between two awaits: the event loop may run another one
LoopFree == \A j \in DOMAIN tasks : tasks[j].pc # "loop"

Idle == [is_running |-> FALSE, current_job_id |-> 0]

\* ReindexService.start_reindex and .start_collection_reindex
StartReindex(op) ==
    /\ LoopFree
    /\ LET active_job == get_active_reindex_job(jobs)
       IN  IF active_job # 0
           THEN /\ start_result' = [outcome |-> "RuntimeError", job_id |-> 0,
                                    names |-> active_job]
                /\ UNCHANGED <<jobs, tasks>>
           ELSE /\ Len(jobs) < MaxJobs
                /\ jobs' = create_reindex_job(jobs)
                /\ tasks' = [j \in DOMAIN tasks \cup {Len(jobs')} |->
                               IF j \in DOMAIN tasks THEN tasks[j]
                               ELSE [pc |-> "scheduled", todo |-> <<>>, vector_store |-> VS_empty]]
                /\ start_result' = [outcome |-> "started", job_id |-> Len(jobs'),
                                    names |-> 0]
    /\ UNCHANGED <<docs_dir, service>>
    /\ UNCHANGED storeVars
    /\ UNCHANGED <<repairVars, diagVars, uploadVars, searchVars, chunkVars>>

\* _run_reindex from its first statement to the end of clear_index(), or to its
\* return when there are no documents or a constructor or clear_index raises
RunReindexStart(j, raises) ==
    /\ LoopFree
    /\ j \in DOMAIN tasks
    /\ tasks[j].pc = "scheduled"
    /\ raises => docs_dir # {}
    /\ IF docs_dir = {}
       THEN /\ jobs' = update_reindex_job(jobs, j, "completed", "")
            /\ tasks' = TaskDone(j)
            /\ service' = Idle
            /\ UNCHANGED jdisk
       ELSE IF raises
       THEN /\ jobs' = update_reindex_job(jobs, j, "failed", "error")
            /\ tasks' = TaskDone(j)
            /\ service' = Idle
            /\ UNCHANGED jdisk
       ELSE LET vector_store == VS_clear_index(VS_load_or_create_index(jdisk))
            IN  /\ jobs' = update_reindex_job(jobs, j, "running", "")
                /\ jdisk' = VS_save(vector_store, jdisk)
                /\ tasks' = [tasks EXCEPT ![j] = [pc |-> "loop", todo |-> SetToSeq(docs_dir),
                                                  vector_store |-> vector_store]]
                /\ service' = [is_running |-> TRUE, current_job_id |-> j]
    /\ UNCHANGED <<docs_dir, start_result>>
    /\ UNCHANGED <<mode, vs, v2_index, db_chunks, v2disk_index, call, last_call>>
    /\ UNCHANGED <<repairVars, diagVars, uploadVars, searchVars, chunkVars>>

\* one iteration of the document loop: a document that is indexed is followed by
\* await asyncio.sleep(0); one that raises (its file is gone) is skipped by continue
RunReindexDocument(j) ==
    /\ j \in DOMAIN tasks
    /\ tasks[j].pc = "loop"
    /\ tasks[j].todo # <<>>
    /\ LET doc == Head(tasks[j].todo)
           chunks == chunk_document(doc)
           embeddings == embed_texts(Texts(chunks))
           store == tasks[j].vector_store
       IN  IF doc \in docs_dir /\ Len(store.index) + Len(chunks) <= MaxVectors
           THEN tasks' = [tasks EXCEPT ![j] =
                      [pc |-> "yield", todo |-> Tail(tasks[j].todo),
                       vector_store |-> VS_add_chunks_rest(
                           VS_add_chunks_index(store, chunks, embeddings), chunks, embeddings)]]
           ELSE tasks' = [tasks EXCEPT ![j].todo = Tail(tasks[j].todo)]
    /\ UNCHANGED <<jobs, docs_dir, service, start_result>>
    /\ UNCHANGED storeVars
    /\ UNCHANGED <<repairVars, diagVars, uploadVars, searchVars, chunkVars>>

\* the event loop resumes the worker suspended in asyncio.sleep(0)
RunReindexResume(j) ==
    /\ LoopFree
    /\ j \in DOMAIN tasks
    /\ tasks[j].pc = "yield"
    /\ tasks' = [tasks EXCEPT ![j].pc = "loop"]
    /\ UNCHANGED <<jobs, docs_dir, service, start_result>>
    /\ UNCHANGED storeVars
    /\ UNCHANGED <<repairVars, diagVars, uploadVars, searchVars, chunkVars>>

\* after the loop: vector_store.save(), status completed, reload_callback()
RunReindexFinish(j) ==
    /\ j \in DOMAIN tasks
    /\ tasks[j].pc = "loop"
    /\ tasks[j].todo = <<>>
    /\ jdisk' = VS_save(tasks[j].vector_store, jdisk)
    /\ jobs' = update_reindex_job(jobs, j, "completed", "")
    /\ vs' = IF mode = "json" THEN VS_load_or_create_index(jdisk') ELSE vs
    /\ tasks' = TaskDone(j)
    /\ service' = Idle
    /\ UNCHANGED <<docs_dir, start_result>>
    /\ UNCHANGED <<mode, v2_index, db_chunks, v2disk_index, call, last_call>>
    /\ UNCHANGED <<repairVars, diagVars, uploadVars, searchVars, chunkVars>>

\* documents the collection indexer lists (list_documents of either store)
ListedDocuments ==
    IF mode = "json" THEN DOMAIN vs.document_map
    ELSE {db_chunks[i].document_id : i \in 1..Len(db_chunks)}

\* main.upload_documents with one new file that indexes without error: store the
\* file, index_document, save_index
UploadDocument(d) ==
    /\ LoopFree
    /\ call = NoCall
    /\ d \notin docs_dir
    /\ index_count + ChunkCount(d) <= MaxVectors
    /\ mode = "json" => /\ Len(vs.metadata) + ChunkCount(d) <= MaxVectors
                        /\ Len(vs.embeddings.rows) + ChunkCount(d) <= MaxVectors
    /\ docs_dir' = docs_dir \cup {d}
    /\ LET chunks == chunk_document(d)
           embeddings == embed_texts(Texts(chunks))
       IN  IF mode = "json"
           THEN /\ vs' = VS_add_chunks_rest(
                           VS_add_chunks_index(vs, chunks, embeddings), chunks, embeddings)
                /\ jdisk' = VS_save(vs', jdisk)
                /\ UNCHANGED <<v2_index, db_chunks, v2disk_index>>
           ELSE /\ v2_index' = V2_add_chunks_index(v2_index, chunks, embeddings)
                /\ db_chunks' = MS_add_chunks(db_chunks, chunks)
                /\ v2disk_index' = Some(v2_index')
                /\ UNCHANGED <<vs, jdisk>>
    /\ UNCHANGED <<mode, call, last_call>>
    /\ UNCHANGED <<jobs, tasks, service, start_result>>
    /\ UNCHANGED <<repairVars, diagVars, uploadVars, searchVars, chunkVars>>

\* main.delete_document for a listed document: delete from the index, unlink the
\* file, save_index
DeleteDocumentHandler(d) ==
    /\ LoopFree
    /\ call = NoCall
    /\ d \in ListedDocuments
    /\ IF mode = "json"
       THEN /\ ~VS_delete_raises(vs, d)
            /\ vs' = VS_delete_document(vs, d)
            /\ jdisk' = VS_save(vs', jdisk)
            /\ UNCHANGED <<v2_index, db_chunks, v2disk_index>>
       ELSE /\ db_chunks' = MS_delete_document(db_chunks, d)
            /\ v2disk_index' = Some(v2_index)
            /\ UNCHANGED <<vs, jdisk, v2_index>>
    /\ docs_dir' = docs_dir \ {d}
    /\ UNCHANGED <<mode, call, last_call>>
    /\ UNCHANGED <<jobs, tasks, service, start_result>>
    /\ UNCHANGED <<repairVars, diagVars, uploadVars, searchVars, chunkVars>>

\* VectorStoreV2._load_or_create_index
V2_load_or_create_index(file) == IF file.has THEN file.rows ELSE <<>>

\* The process dies (kill, power loss, uvicorn reload) and is started again: every
\* task and every in-memory store is gone, lifespan loads the default indexer from
\* disk, and the reindex_jobs rows are what they were
CrashRestart ==
    /\ tasks' = <<>>
    /\ service' = Idle
    /\ vs' = VS_load_or_create_index(jdisk)
    /\ v2_index' = V2_load_or_create_index(v2disk_index)
    /\ call' = NoCall
    /\ UNCHANGED <<jobs, docs_dir, start_result>>
    /\ UNCHANGED <<mode, jdisk, db_chunks, v2disk_index, last_call>>
    /\ UNCHANGED <<repairVars, diagVars, uploadVars, searchVars, chunkVars>>

ReindexNext ==
    \/ \E op \in {"start_reindex", "start_collection_reindex"} : StartReindex(op)
    \/ \E j \in DOMAIN tasks : \E raises \in BOOLEAN : RunReindexStart(j, raises)
    \/ \E j \in DOMAIN tasks : RunReindexDocument(j)
    \/ \E j \in DOMAIN tasks : RunReindexResume(j)
    \/ \E j \in DOMAIN tasks : RunReindexFinish(j)
    \/ \E d \in Docs : UploadDocument(d)
    \/ \E d \in Docs : DeleteDocumentHandler(d)
    \/ CrashRestart

\* the re-indexing worker writes the files of the JSON store: a collection
\* whose indexer is the VectorStore shares them with it
ReindexInit == mode = "json" /\ StoreInit /\ ReindexIdle /\ RepairIdle /\ DiagIdle /\ UploadIdle /\ SearchIdle /\ ChunkIdle

SpecReindex == ReindexInit /\ [][ReindexNext]_vars

\* a step of a worker coroutine; the event loop runs every task that is ready
RunReindexStep ==
    \E j \in DOMAIN tasks :
        \/ \E raises \in BOOLEAN : RunReindexStart(j, raises)
        \/ RunReindexDocument(j)
        \/ RunReindexResume(j)
        \/ RunReindexFinish(j)

SpecReindexFair == SpecReindex /\ WF_vars(RunReindexStep)

(***************************************************************************)
(* Claims about re-indexing jobs                                           *)
(***************************************************************************)
\* C4: at most one re-indexing job is pending or running at any time; a
\* start_reindex or start_collection_reindex call made while a job is active
\* creates no job record, starts no worker, and fails with an error that names
\* the id of the active job.
C4_SingleActiveJob ==
    /\ [](Cardinality(ActiveJobs) <= 1)
    /\ [][ActiveJobs # {} =>
            /\ Len(jobs') = Len(jobs)
            /\ DOMAIN tasks' \subseteq DOMAIN tasks
            /\ start_result' # start_result =>
                  /\ start_result'.outcome = "RuntimeError"
                  /\ start_result'.names \in ActiveJobs]_vars

\* C4 witness: a start call was refused while a job was active, naming that job
C4_Witness_StartRefused ==
    /\ start_result.outcome = "RuntimeError"
    /\ start_result.names \in ActiveJobs
    /\ Len(jobs) = 1

\* the worker of job j is between its clear_index() and its final save()
MidRun(t) == t.pc \in {"loop", "yield"}

\* C5: index mutations are mutually exclusive: while a re-indexing job is between
\* its clear_index() and its final save(), no request handler adds chunks to,
\* deletes from or saves the store of the same on-disk index.
C5_NoHandlerMutationDuringReindex ==
    [][\A j \in DOMAIN tasks \cap DOMAIN tasks' :
          (MidRun(tasks[j]) /\ MidRun(tasks'[j])) => (vs' = vs /\ jdisk' = jdisk)]_vars

\* C7: every re-indexing job eventually reaches completed or failed, also when
\* its worker dies with the process and the process is restarted.
C7_EveryJobTerminates ==
    \A j \in 1..MaxJobs :
        [](Len(jobs) >= j =>
              <>(Len(jobs) >= j /\ jobs[j].status \in {"completed", "failed"}))


(***************************************************************************)
(* IndexRepairService, services/index_repair.py.  The service works on the *)
(* files faiss.index, embeddings.npy and metadata.db of its directory.     *)
(* rebuild_from_metadata and truncate_faiss_to_metadata write faiss.index  *)
(* and then embeddings.npy; the process can die between the two writes.    *)
(***************************************************************************)
MiniLMDim == 384                \* dimensions of all-MiniLM-L6-v2
MPNetDim == 768                 \* dimensions of all-mpnet-base-v2
ModelDims == {MiniLMDim, MPNetDim}

RECURSIVE ChunksOf(_)
\* the chunks of a sequence of documents, in order
ChunksOf(q) == IF q = <<>> THEN <<>> ELSE chunk_document(Head(q)) \o ChunksOf(Tail(q))

\* sequences of distinct documents whose chunks fit the cap
DocSeqs ==
    {q \in UNION {[1..n -> Docs] : n \in 0..NumDocs} :
        /\ \A i, k \in 1..Len(q) : q[i] = q[k] => i = k
        /\ Len(ChunksOf(q)) <= MaxVectors}

ChunkLists ==
    UNION {{SubSeq(ChunksOf(q), 1, n) : n \in 0..Len(ChunksOf(q))} : q \in DocSeqs}
VectorLists == {l2_normalize(embed_texts(Texts(c))) : c \in ChunkLists}

\* what a directory can hold: each file absent or present
RepairDirs ==
    [index : {Missing} \cup {Some(v) : v \in VectorLists},
     emb : {Missing} \cup {Some(v) : v \in VectorLists},
     chunks : {Missing} \cup {Some(c) : c \in ChunkLists}]

PairOf(dir) == [index |-> dir.index, emb |-> dir.emb]

\* MetadataStore.__init__: sqlite3.connect creates a missing database file and
\* _init_db creates its empty tables
MS_open(file) == IF file.has THEN file ELSE Some(<<>>)

\* IndexRepairService.diagnose: the status it reports
diagnose(dir) ==
    IF ~dir.index.has THEN "missing_index"
    ELSE IF ~dir.chunks.has THEN "missing_metadata"
    ELSE LET faiss_count == Len(dir.index.rows)
             chunk_total == MS_get_total_chunks(dir.chunks.rows)
             embeddings_count == IF dir.emb.has THEN Len(dir.emb.rows) ELSE 0
         IN  IF faiss_count = chunk_total /\ chunk_total = embeddings_count
             THEN "synced" ELSE "out_of_sync"

\* a length test that never refuses: C9 must not survive it
EmbeddingsTooShort_Never(embeddings, chunk_total) == FALSE

\* truncate_faiss_to_metadata: len(embeddings) < metadata_count
EmbeddingsTooShort(embeddings, chunk_total) == Len(embeddings) < chunk_total

\* truncate_faiss_to_metadata up to its first file write: what the call does
truncate_faiss_to_metadata(dir, embedding_dim, stored_dim) ==
    IF ~dir.index.has
    THEN [kind |-> "raised", error |-> "could not open faiss.index", embeddings |-> <<>>]
    ELSE LET chunk_total == MS_get_total_chunks(MS_open(dir.chunks).rows)
         IN  IF Len(dir.index.rows) <= chunk_total
             THEN [kind |-> "no_truncation_needed", error |-> "", embeddings |-> <<>>]
             ELSE IF ~dir.emb.has
             THEN [kind |-> "refused", embeddings |-> <<>>,
                   error |-> "Embeddings file not found - cannot truncate safely"]
             ELSE IF EmbeddingsTooShort(dir.emb.rows, chunk_total)
             THEN [kind |-> "refused", embeddings |-> <<>>,
                   error |-> "Embeddings file has fewer entries than metadata - cannot truncate safely"]
             ELSE IF stored_dim # embedding_dim
             THEN \* new_index.add asserts the dimension; str(AssertionError()) is empty
                  [kind |-> "raised", error |-> "", embeddings |-> <<>>]
             ELSE [kind |-> "write", error |-> "",
                   embeddings |-> SubSeq(dir.emb.rows, 1, Min(chunk_total, Len(dir.emb.rows)))]

RECURSIVE RebuildVectors(_, _, _)
\* rebuild_from_metadata, the batch loop from batch b on: the vectors of the
\* batches that embed; a batch that raises is logged and skipped
RebuildVectors(all_chunks, failed, b) ==
    IF (b - 1) * BatchSize >= Len(all_chunks) THEN <<>>
    ELSE LET batch == SubSeq(all_chunks, (b - 1) * BatchSize + 1,
                             Min(b * BatchSize, Len(all_chunks)))
         IN  (IF b \in failed THEN <<>> ELSE l2_normalize(embed_texts(Texts(batch))))
                 \o RebuildVectors(all_chunks, failed, b + 1)

NumBatches(n) == (n + BatchSize - 1) \div BatchSize

\* GET /api/index/diagnose: IndexRepairService(indexes_path).diagnose()
Diagnose ==
    /\ repair_call = NoRepairCall
    /\ repair_result' = [op |-> "diagnose", success |-> TRUE, error |-> "",
                         status |-> diagnose(rd), before |-> rd, target |-> NoPair]
    /\ UNCHANGED <<rd, model_dim, repair_call>>
    /\ UNCHANGED <<storeVars, reindexVars, diagVars, uploadVars, searchVars, chunkVars>>

\* repair_index(method="truncate"): truncate_faiss_to_metadata() with the default
\* embedding_dim, up to its return or to faiss.write_index
TruncateBegin ==
    /\ repair_call = NoRepairCall
    /\ LET todo == truncate_faiss_to_metadata(rd, DefaultEmbeddingDim, model_dim)
           opened == [rd EXCEPT !.chunks = IF rd.index.has THEN MS_open(@) ELSE @]
       IN  IF todo.kind = "write"
           THEN /\ rd' = [opened EXCEPT !.index = Some(todo.embeddings)]
                /\ repair_call' = [op |-> "truncate", before |-> rd,
                                   new_embeddings |-> todo.embeddings]
                /\ repair_result' = NoRepairResult
           ELSE /\ rd' = opened
                /\ repair_result' = [op |-> "truncate",
                                     success |-> (todo.kind = "no_truncation_needed"),
                                     error |-> todo.error, status |-> todo.kind,
                                     before |-> rd, target |-> NoPair]
                /\ UNCHANGED repair_call
    /\ UNCHANGED model_dim
    /\ UNCHANGED <<storeVars, reindexVars, diagVars, uploadVars, searchVars, chunkVars>>

\* truncate_faiss_to_metadata from np.save to its return
TruncateEnd ==
    /\ repair_call.op = "truncate"
    /\ rd' = [rd EXCEPT !.emb = Some(repair_call.new_embeddings)]
    /\ repair_result' = [op |-> "truncate", success |-> TRUE, error |-> "",
                         status |-> "write", before |-> repair_call.before,
                         target |-> NoPair]
    /\ repair_call' = NoRepairCall
    /\ UNCHANGED model_dim
    /\ UNCHANGED <<storeVars, reindexVars, diagVars, uploadVars, searchVars, chunkVars>>

\* repair_index(method="rebuild"): rebuild_from_metadata(embedding_dim of the
\* collection's model), up to its return or to faiss.write_index; failed is the
\* set of batches whose embed_texts raises
RebuildBegin(has_service, failed) ==
    /\ repair_call = NoRepairCall
    /\ LET opened == [rd EXCEPT !.chunks = MS_open(@)]
           all_chunks == opened.chunks.rows
           new_embeddings == RebuildVectors(all_chunks, failed, 1)
       IN  IF ~has_service
           THEN /\ failed = {}
                /\ repair_result' = [op |-> "rebuild", success |-> FALSE,
                      error |-> "Embedding service not provided - cannot rebuild",
                      status |-> "", before |-> rd, target |-> NoPair]
                /\ UNCHANGED <<rd, repair_call>>
           ELSE IF all_chunks = <<>>
           THEN /\ failed = {}
                /\ rd' = opened
                /\ repair_result' = [op |-> "rebuild", success |-> TRUE, error |-> "",
                      status |-> "No chunks in metadata - nothing to rebuild",
                      before |-> rd, target |-> NoPair]
                /\ UNCHANGED repair_call
           ELSE /\ failed \subseteq 1..NumBatches(Len(all_chunks))
                /\ rd' = [opened EXCEPT !.index = Some(new_embeddings)]
                /\ repair_call' = [op |-> "rebuild", before |-> rd,
                                   new_embeddings |-> new_embeddings]
                /\ repair_result' = NoRepairResult
    /\ UNCHANGED model_dim
    /\ UNCHANGED <<storeVars, reindexVars, diagVars, uploadVars, searchVars, chunkVars>>

\* rebuild_from_metadata from np.save to its return
RebuildEnd ==
    /\ repair_call.op = "rebuild"
    /\ rd' = [rd EXCEPT !.emb = Some(repair_call.new_embeddings)]
    /\ repair_result' = [op |-> "rebuild", success |-> TRUE, error |-> "",
                         status |-> "Successfully rebuilt index",
                         before |-> repair_call.before, target |-> NoPair]
    /\ repair_call' = NoRepairCall
    /\ UNCHANGED model_dim
    /\ UNCHANGED <<storeVars, reindexVars, diagVars, uploadVars, searchVars, chunkVars>>

\* the process dies between faiss.write_index and np.save; before and target
\* record the pair of files the operation started from and was going to leave
RepairCrash ==
    /\ repair_call # NoRepairCall
    /\ repair_result' = [op |-> "crash", success |-> FALSE, error |-> "", status |-> "",
                         before |-> repair_call.before,
                         target |-> [index |-> Some(repair_call.new_embeddings),
                                     emb |-> Some(repair_call.new_embeddings)]]
    /\ repair_call' = NoRepairCall
    /\ UNCHANGED <<rd, model_dim>>
    /\ UNCHANGED <<storeVars, reindexVars, diagVars, uploadVars, searchVars, chunkVars>>

RepairNext ==
    \/ Diagnose
    \/ TruncateBegin
    \/ TruncateEnd
    \/ \E has_service \in BOOLEAN : \E failed \in SUBSET (1..NumBatches(MaxVectors)) :
          RebuildBegin(has_service, failed)
    \/ RebuildEnd
    \/ RepairCrash

\* the directory holds any files (left by an earlier version, a restored backup
\* or an interrupted operation); the collection uses one of the known models
RepairInit ==
    /\ mode = "sqlite"
    /\ StoreInit
    /\ ReindexIdle
    /\ rd \in RepairDirs
    /\ model_dim \in ModelDims
    /\ repair_call = NoRepairCall
    /\ repair_result = NoRepairResult
    /\ DiagIdle /\ UploadIdle /\ SearchIdle /\ ChunkIdle

SpecRepair == RepairInit /\ [][RepairNext]_vars

(***************************************************************************)
(* Claims about the repair service (checked under SpecRepair)              *)
(***************************************************************************)
\* the metadata count a truncate call found, and its precondition on the index
TruncateCalled == repair_result.op = "truncate" /\ repair_result.before.index.has
CountBefore == MS_get_total_chunks(MS_open(repair_result.before.chunks).rows)
IndexAhead == TruncateCalled /\ Len(repair_result.before.index.rows) > CountBefore

\* C6: rebuild_from_metadata and truncate_faiss_to_metadata keep the old index
\* and embeddings files intact until the new ones are fully written: a crash
\* leaves either the full old pair or the full new pair on disk.
C6_CrashLeavesOldOrNewPair ==
    repair_result.op = "crash" =>
        \/ PairOf(rd) = PairOf(repair_result.before)
        \/ PairOf(rd) = repair_result.target

\* C8: whenever the index count is greater than the metadata count and the
\* embeddings file has at least metadata-count rows, truncate_faiss_to_metadata
\* returns success and index, embeddings and metadata counts are then equal, so
\* that a following diagnose reports synced.
C8_TruncateBringsInSync ==
    (/\ IndexAhead
     /\ repair_result.before.emb.has
     /\ Len(repair_result.before.emb.rows) >= CountBefore)
    => /\ repair_result.success
       /\ Len(rd.index.rows) = CountBefore
       /\ Len(rd.emb.rows) = CountBefore
       /\ MS_get_total_chunks(rd.chunks.rows) = CountBefore
       /\ diagnose(rd) = "synced"

\* C9: when the index count is greater than the metadata count and the embeddings
\* file is missing or has fewer rows than the metadata count,
\* truncate_faiss_to_metadata returns success = false with an error and changes
\* neither the index file nor the embeddings file.
C9_TruncateRefusesAndKeepsFiles ==
    (/\ IndexAhead
     /\ \/ ~repair_result.before.emb.has
        \/ Len(repair_result.before.emb.rows) < CountBefore)
    => /\ ~repair_result.success
       /\ repair_result.error # ""
       /\ PairOf(rd) = PairOf(repair_result.before)

\* C9 witness: a truncate call found an embeddings file shorter than the metadata
\* and was refused
C9_Witness_ShortEmbeddingsRefused ==
    /\ IndexAhead
    /\ repair_result.before.emb.has
    /\ Len(repair_result.before.emb.rows) < CountBefore
    /\ ~repair_result.success

\* C10: whenever rebuild_from_metadata returns success = true, the index and the
\* embeddings file have both been replaced and each holds exactly one vector per
\* metadata row, in ordinal order, for every batch outcome and every size
\* including zero.
C10_RebuildOneVectorPerRow ==
    (repair_result.op = "rebuild" /\ repair_result.success) =>
        LET expected == l2_normalize(embed_texts(Texts(MS_open(rd.chunks).rows)))
        IN  /\ rd.index = Some(expected)
            /\ rd.emb = Some(expected)

\* the directory a truncate call found is what VectorStoreV2 leaves after
\* delete_document(d): index and embeddings of the documents q, metadata
\* without the rows of d
LeftByDelete(dir, q, d) ==
    /\ d \in Range(q)
    /\ dir.index = Some(l2_normalize(embed_texts(Texts(ChunksOf(q)))))
    /\ dir.emb = dir.index
    /\ dir.chunks = Some(MS_delete_document(ChunksOf(q), d))

\* C29: after truncate_faiss_to_metadata returns success, for every remaining
\* metadata chunk the vector at its ordinal in the rebuilt index and in the raw
\* embeddings matrix is the vector stored for that chunk, whichever document's
\* deletion caused the surplus vectors.
C29_TruncateKeepsChunkVectors ==
    (/\ IndexAhead
     /\ repair_result.success
     /\ \E q \in DocSeqs : \E d \in Docs : LeftByDelete(repair_result.before, q, d))
    => \A i \in 1..Len(rd.chunks.rows) :
          LET own == l2_normalize(embed_texts(<<rd.chunks.rows[i].text>>))[1]
          IN  /\ i <= Len(rd.index.rows) /\ rd.index.rows[i] = own
              /\ i <= Len(rd.emb.rows) /\ rd.emb.rows[i] = own

(***************************************************************************)
(* IndexRepairService.diagnose and repair_documents_table, with the state  *)
(* of each file and the tables of metadata.db.  A file is absent, present  *)
(* but unreadable, or readable; metadata.db written before schema          *)
(* versioning has no schema_info table and no v3.0 columns.                *)
(***************************************************************************)
MaxRows == 2                    \* cap on the rows of the chunks table and of the files

SCHEMA_VERSION == "3.0"

\* CASE WHEN LOWER(filename) LIKE '%.txt' THEN 'txt' ... ELSE 'unknown'
InferFormat(filename) == IF filename \in {"a.txt", "b.txt"} THEN "txt" ELSE "unknown"

FormatIn(v3) == IF v3 THEN "txt" ELSE "NULL"

ChunkTables(v3) ==
    UNION {[1..n -> [document_id : Docs, filename : Filenames, source_format : {FormatIn(v3)}]] :
              n \in 0..MaxRows}

\* document_id is the PRIMARY KEY of documents
DocumentTables(v3) ==
    {t \in SUBSET [document_id : Docs, filename : Filenames, num_chunks : 1..MaxRows,
                   source_format : {FormatIn(v3)}] :
        \A r, q \in t : r.document_id = q.document_id => r = q}

ReadableDbs ==
    UNION {{[state |-> "ok", schema_info |-> v3, version |-> IF v3 THEN SCHEMA_VERSION ELSE "",
             v3_columns |-> v3, chunks |-> c, documents |-> t] :
               c \in ChunkTables(v3), t \in DocumentTables(v3)} : v3 \in BOOLEAN}

CorruptDb == [AbsentDb EXCEPT !.state = "corrupt"]

\* a database file without tables, as sqlite3.connect creates it
EmptyDb == [AbsentDb EXCEPT !.state = "empty"]

DiagFiles ==
    {AbsentFile, [state |-> "corrupt", count |-> 0]}
        \cup {[state |-> "ok", count |-> n] : n \in 0..MaxRows}

DiagDirs == [index : DiagFiles, emb : DiagFiles, db : {AbsentDb, CorruptDb} \cup ReadableDbs]

\* MetadataStore._init_db on a database file: CREATE TABLE IF NOT EXISTS for
\* schema_info, chunks and documents; the version marker is inserted when the
\* chunks table has the v3.0 columns and no marker is there
MS_init_db(db) ==
    LET tables == IF db.state = "empty"
                  THEN [db EXCEPT !.state = "ok", !.v3_columns = TRUE]
                  ELSE db
    IN  [tables EXCEPT !.schema_info = TRUE,
                       !.version = IF tables.v3_columns /\ @ = "" THEN SCHEMA_VERSION ELSE @]

\* MetadataStore._migrate_to_v3: add the columns, infer source_format of the
\* documents rows, copy it to the chunks of each document
MS_migrate_to_v3(db) ==
    LET documents == {[r EXCEPT !.source_format =
                            IF @ = "NULL" THEN InferFormat(r.filename) ELSE @] :
                         r \in db.documents}
        FormatOf(c) ==
            IF \E r \in documents : r.document_id = c.document_id
            THEN (CHOOSE r \in documents : r.document_id = c.document_id).source_format
            ELSE "NULL"
    IN  [db EXCEPT !.v3_columns = TRUE,
                   !.documents = documents,
                   !.chunks = [i \in 1..Len(@) |->
                                  [@[i] EXCEPT !.source_format =
                                      IF @ = "NULL" THEN FormatOf(db.chunks[i]) ELSE @]]]

\* MetadataStore._migrate_schema: a database without marker counts as version 1.0
MS_migrate_schema(db) ==
    LET current_version == IF db.version # "" THEN db.version ELSE "1.0"
    IN  IF current_version = SCHEMA_VERSION THEN db
        ELSE [(IF current_version \in {"1.0", "2.0"} THEN MS_migrate_to_v3(db) ELSE db)
                 EXCEPT !.version = SCHEMA_VERSION]

\* MetadataStore.__init__ on a readable database file
MS_init(db) == MS_migrate_schema(MS_init_db(db))

\* chunk rows whose document_id has no row in documents
OrphanedChunks(db) ==
    {i \in 1..Len(db.chunks) :
        \A r \in db.documents : r.document_id # db.chunks[i].document_id}

\* IndexRepairService._check_documents_table
check_documents_table(db) ==
    [documents_count |-> Cardinality(db.documents),
     unique_doc_ids |-> Cardinality({db.chunks[i].document_id : i \in 1..Len(db.chunks)}),
     orphaned_chunks_count |-> Cardinality(OrphanedChunks(db))]

\* diagnose gets as far as opening metadata.db
DiagnoseOpensDb(d) ==
    /\ d.index.state = "ok"
    /\ d.db.state \in {"ok", "empty"}

\* metadata.db after diagnose: MetadataStore(self.metadata_db_path) has run
diagnose_db(d) == IF DiagnoseOpensDb(d) THEN MS_init(d.db) ELSE d.db

\* the synced test of a mutant that leaves the embeddings count out
CountsAgree_IndexAndMetadata(faiss_count, chunk_total, embeddings_count) ==
    faiss_count = chunk_total

\* faiss_count == metadata_count == embeddings_count
CountsAgree(faiss_count, chunk_total, embeddings_count) ==
    faiss_count = chunk_total /\ chunk_total = embeddings_count

\* IndexRepairService.diagnose: the dictionary it returns
diagnose_result(d) ==
    IF d.index.state = "absent"
    THEN [NoDiagResult EXCEPT !.issues = <<"FAISS index file not found">>,
                              !.status = "missing_index",
                              !.recommendations = <<"Re-index all documents">>]
    ELSE IF d.db.state = "absent"
    THEN [NoDiagResult EXCEPT !.issues = <<"Metadata database not found">>,
                              !.status = "missing_metadata",
                              !.recommendations = <<"Re-index all documents">>]
    ELSE IF d.index.state = "corrupt"
    THEN [NoDiagResult EXCEPT !.issues = <<"Failed to load FAISS index">>,
                              !.status = "corrupted_index",
                              !.recommendations = <<"Rebuild FAISS index from metadata">>]
    ELSE
    LET faiss_count == d.index.count
        embeddings_count == IF d.emb.state = "ok" THEN d.emb.count ELSE 0
        loaded == [NoDiagResult EXCEPT
                      !.faiss_count = faiss_count,
                      !.embeddings_count = embeddings_count,
                      !.issues = IF d.emb.state = "corrupt"
                                 THEN <<"Failed to load embeddings file">> ELSE <<>>]
    IN  IF d.db.state = "corrupt"
        THEN [loaded EXCEPT !.issues = Append(@, "Failed to load metadata"),
                            !.status = "corrupted_metadata",
                            !.recommendations = <<"Re-index all documents">>]
        ELSE
        LET db == MS_init(d.db)
            chunk_total == MS_get_total_chunks(db.chunks)
            docs_info == check_documents_table(db)
            counted == [loaded EXCEPT
                           !.metadata_count = chunk_total,
                           !.documents_count = docs_info.documents_count,
                           !.orphaned_chunks_count = docs_info.orphaned_chunks_count]
            ahead == IF faiss_count > chunk_total
                     THEN <<"FAISS has orphaned entries (no metadata)">> ELSE <<>>
            behind == IF chunk_total > faiss_count
                      THEN <<"Metadata has entries not in FAISS index">> ELSE <<>>
            emb == IF embeddings_count # faiss_count
                   THEN <<"Embeddings file count doesn't match FAISS">> ELSE <<>>
            orphaned == IF counted.orphaned_chunks_count > 0
                        THEN <<"Found chunks with no corresponding document record">>
                        ELSE <<>>
            empty == IF counted.documents_count = 0 /\ chunk_total > 0
                     THEN <<"Documents table is empty but chunks exist">> ELSE <<>>
            rebuild == IF faiss_count # chunk_total
                       THEN <<"Run 'rebuild_from_metadata'">> ELSE <<>>
            repair == (IF counted.orphaned_chunks_count > 0
                       THEN <<"Run 'repair_documents_table'">> ELSE <<>>)
                      \o (IF counted.documents_count = 0 /\ chunk_total > 0
                          THEN <<"Run 'repair_documents_table'">> ELSE <<>>)
        IN  IF CountsAgree(faiss_count, chunk_total, embeddings_count)
            THEN [counted EXCEPT !.status = "synced"]
            ELSE [counted EXCEPT
                     !.issues = @ \o ahead \o behind \o emb \o orphaned \o empty,
                     !.recommendations = rebuild \o repair,
                     !.status = "out_of_sync"]

\* the groups of SELECT ... FROM chunks c WHERE NOT EXISTS (a documents row)
\* GROUP BY c.document_id, c.filename
missing_docs(db) ==
    {[document_id |-> db.chunks[i].document_id, filename |-> db.chunks[i].filename] :
        i \in OrphanedChunks(db)}

\* COUNT(*) of a group
GroupCount(db, g) ==
    Cardinality({i \in 1..Len(db.chunks) :
        /\ db.chunks[i].document_id = g.document_id
        /\ db.chunks[i].filename = g.filename})

\* repair_documents_table raises before its first INSERT: the file is not a
\* database, or the SELECT names a table or column the database does not have
repair_documents_raises(db) == db.state # "ok" \/ ~db.v3_columns

\* the rows repair_documents_table inserts when first[d] is the first group of
\* document d that the SELECT returns; the INSERT of a later group of the same
\* document fails on the primary key and is recorded in errors
repair_documents_rows(db, first) ==
    {[document_id |-> g.document_id, filename |-> g.filename,
      num_chunks |-> GroupCount(db, g), source_format |-> "txt"] :
        g \in {h \in missing_docs(db) : first[h.document_id] = h.filename}}

\* GET /api/index/diagnose: IndexRepairService(indexes_path).diagnose()
DiagnoseIndex ==
    /\ diag' = [op |-> "diagnose", success |-> TRUE, result |-> diagnose_result(dd),
                before |-> dd]
    /\ dd' = [dd EXCEPT !.db = diagnose_db(dd)]
    /\ UNCHANGED <<storeVars, reindexVars, repairVars, uploadVars, searchVars, chunkVars>>

\* repair_index(method="repair_documents"): repair_documents_table(); the order
\* in which the SELECT returns the groups is not fixed by the query
RepairDocumentsTable(first) ==
    /\ IF repair_documents_raises(dd.db)
       THEN /\ diag' = [op |-> "repair_documents", success |-> FALSE,
                        result |-> NoDiagResult, before |-> dd]
            /\ dd' = [dd EXCEPT !.db = IF @.state = "absent" THEN EmptyDb ELSE @]
       ELSE /\ \A g \in missing_docs(dd.db) :
                  \E h \in missing_docs(dd.db) :
                      h.document_id = g.document_id /\ first[h.document_id] = h.filename
            /\ diag' = [op |-> "repair_documents", success |-> TRUE,
                        result |-> NoDiagResult, before |-> dd]
            /\ dd' = [dd EXCEPT !.db.documents =
                                    @ \cup repair_documents_rows(dd.db, first)]
    /\ UNCHANGED <<storeVars, reindexVars, repairVars, uploadVars, searchVars, chunkVars>>

DiagNext ==
    \/ DiagnoseIndex
    \/ \E first \in [Docs -> Filenames] : RepairDocumentsTable(first)

\* the directory holds any files: written by this or an earlier version of the
\* program, restored from a backup, or damaged
DiagInit ==
    /\ mode = "sqlite"
    /\ StoreInit
    /\ ReindexIdle
    /\ RepairIdle
    /\ dd \in DiagDirs
    /\ diag = NoDiag
    /\ UploadIdle
    /\ SearchIdle /\ ChunkIdle

SpecDiagnose == DiagInit /\ [][DiagNext]_vars

(***************************************************************************)
(* Claims about diagnose and repair_documents_table (checked under         *)
(* SpecDiagnose)                                                           *)
(***************************************************************************)
DiagnoseCalled == diag.op = "diagnose"

\* the rows of the embeddings file as diagnose counts them: none when the file is
\* absent or cannot be loaded
RawEmbeddingsCount(file) == IF file.state = "ok" THEN file.count ELSE 0

\* C11: diagnose classifies every on-disk state: missing_index if the index file
\* is absent; otherwise missing_metadata if the metadata database is absent;
\* otherwise corrupted_index if the index cannot be read; otherwise
\* corrupted_metadata if the metadata cannot be read; otherwise synced exactly
\* when index count = metadata count = raw-embeddings count, and out_of_sync in
\* every other case.
C11_DiagnoseClassifies ==
    DiagnoseCalled =>
        LET b == diag.before
            st == diag.result.status
        IN  IF b.index.state = "absent" THEN st = "missing_index"
            ELSE IF b.db.state = "absent" THEN st = "missing_metadata"
            ELSE IF b.index.state = "corrupt" THEN st = "corrupted_index"
            ELSE IF b.db.state = "corrupt" THEN st = "corrupted_metadata"
            ELSE IF /\ b.index.count = Len(b.db.chunks)
                    /\ Len(b.db.chunks) = RawEmbeddingsCount(b.emb)
            THEN st = "synced"
            ELSE st = "out_of_sync"

\* C11 witness: diagnose has found index and metadata equal and the embeddings
\* file short, and has reported out_of_sync
C11_Witness_EmbeddingsShort ==
    /\ DiagnoseCalled
    /\ diag.before.index.state = "ok"
    /\ diag.before.db.state = "ok"
    /\ diag.before.index.count = Len(diag.before.db.chunks)
    /\ diag.before.emb.state = "ok"
    /\ diag.before.emb.count < diag.before.index.count
    /\ diag.result.status = "out_of_sync"

\* a documents-table problem of the database diagnose examined
DocumentsProblem(db) ==
    /\ db.state = "ok"
    /\ \/ OrphanedChunks(db) # {}
       \/ db.documents = {} /\ Len(db.chunks) > 0

\* C12: whenever the metadata store contains chunk rows whose document_id has no
\* Document row, or the Document table is empty while chunk rows exist, diagnose
\* lists that problem among its issues and recommends repair_documents_table,
\* whether or not the index, metadata and raw-embeddings counts agree.
C12_DiagnoseReportsDocumentsProblems ==
    (/\ DiagnoseCalled
     /\ diag.before.index.state = "ok"
     /\ DocumentsProblem(diag.before.db))
    => /\ \E i \in 1..Len(diag.result.issues) :
             diag.result.issues[i] \in
                 {"Found chunks with no corresponding document record",
                  "Documents table is empty but chunks exist"}
       /\ \E i \in 1..Len(diag.result.recommendations) :
             diag.result.recommendations[i] = "Run 'repair_documents_table'"

\* C13: diagnose never modifies state: the index file, the raw-embeddings file
\* and the metadata database (chunk rows, Document rows, tables and
\* schema-version marker) are identical before and after any diagnose call,
\* whatever status it returns.
C13_DiagnoseModifiesNothing ==
    DiagnoseCalled => dd = diag.before

\* the number of chunk rows of document d
ChunkRowsOfDoc(db, d) ==
    Cardinality({i \in 1..Len(db.chunks) : db.chunks[i].document_id = d})

\* C14: after repair_documents_table returns success, every document_id that
\* occurs in the chunk rows has exactly one Document row, and that row's chunk
\* count equals the number of chunk rows with that document_id.
C14_RepairedDocumentsMatchChunks ==
    (diag.op = "repair_documents" /\ diag.success) =>
        \A i \in 1..Len(dd.db.chunks) :
            LET d == dd.db.chunks[i].document_id
                rows == {r \in dd.db.documents : r.document_id = d}
            IN  /\ Cardinality(rows) = 1
                /\ \A r \in rows : r.num_chunks = ChunkRowsOfDoc(dd.db, d)

(***************************************************************************)
(* Claims about the stores (checked under Spec)                            *)
(***************************************************************************)
\* the document a vector was embedded for
VectorDoc(v) == v.of[2]

DeleteCompleted ==
    /\ call = NoCall
    /\ last_call.op = "delete_document"
    /\ ~last_call.raised

\* C1: after delete_document(id) of an indexed document has completed, with no
\* other mutation since, the vector index count equals the metadata chunk count.
C1_DeleteLeavesCountsEqual ==
    (DeleteCompleted /\ last_call.ret > 0) => index_count = metadata_count

\* C2: after delete_document(id) has completed, the index holds no vector that was
\* added for a chunk of the deleted document, so no search, for any query and any
\* top_k, returns a position holding such a vector.
C2_DeletedVectorsUnreachable ==
    DeleteCompleted =>
        /\ \A p \in 1..Len(IndexOf) : VectorDoc(IndexOf[p]) # last_call.doc
        /\ \A d \in Docs : \A k \in 1..ChunkCount(d) : \A top_k \in 1..MaxVectors :
              LET query == embed_texts(<<chunk_document(d)[k].text>>)[1]
                  hits == faiss_search(IndexOf, query, Min(top_k, Len(IndexOf)))
              IN  \A j \in 1..Len(hits) : VectorDoc(IndexOf[hits[j]]) # last_call.doc

\* C3: add_chunks writes the metadata before the vectors, so wherever add_chunks
\* can fail, and after it has failed, the index count is at most the metadata count.
C3_VectorsNeverAheadOfMetadata ==
    (call.op = "add_chunks" \/ (last_call.op = "add_chunks" /\ last_call.raised))
        => index_count <= metadata_count

\* VectorStore.list_documents: total_chunks of each document of the metadata
VS_list_documents(metadata) ==
    [d \in {metadata[i].document_id : i \in 1..Len(metadata)} |->
        Cardinality({i \in 1..Len(metadata) : metadata[i].document_id = d})]

\* MetadataStore.list_documents: COUNT(*) of each group of chunks; the rows of a
\* document carry one filename, so a group is a document
MS_list_documents(rows) ==
    [d \in {rows[i].document_id : i \in 1..Len(rows)} |-> MS_deleted_count(rows, d)]

\* DocumentIndexer.index_document: total_chunks of the DocumentMetadata returned
index_document_total_chunks(d) == Len(chunk_document(d))

\* the chunks the store holds, and what list_documents shows
StoredChunks == IF mode = "json" THEN vs.metadata ELSE db_chunks
ListedChunkCounts ==
    IF mode = "json" THEN VS_list_documents(vs.metadata) ELSE MS_list_documents(db_chunks)
StoredCount(d) ==
    Cardinality({i \in 1..Len(StoredChunks) : StoredChunks[i].document_id = d})

\* C15: when the raw embedding matrix is unavailable (VectorStore loaded without
\* an embeddings file), delete_document(id) is a metadata-only delete: the
\* vectors already in the index stay in place and every chunk of every other
\* document is still returned by search.
C15_SoftDeleteKeepsVectors ==
    [][\A d \in Docs :
          (/\ DeleteDocument(d)
           /\ mode = "json"
           /\ vs.embeddings = None
           /\ d \in DOMAIN vs.document_map)
          => /\ vs'.index = vs.index
             /\ \A i \in 1..Len(vs.metadata) :
                   vs.metadata[i].document_id # d =>
                      LET query == embed_texts(<<vs.metadata[i].text>>)[1]
                          found == VS_search(vs', query, MaxVectors)
                      IN  \E j \in 1..Len(found.hits) :
                             found.hits[j].chunk_id = vs.metadata[i].chunk_id]_vars

\* C16: after any sequence of index_document and delete_document calls, including
\* indexing the same content twice without deleting it first, no two chunks held
\* by the store share a chunk_id.
C16_ChunkIdsUnique ==
    call = NoCall =>
        \A i, j \in 1..Len(StoredChunks) :
            StoredChunks[i].chunk_id = StoredChunks[j].chunk_id => i = j

\* C17: after any sequence of index_document and delete_document calls, the chunk
\* count reported for a document (total_chunks returned by index_document, and
\* the count shown by list_documents) equals the number of stored chunk rows of
\* that document.
C17_ReportedChunkCountsMatchRows ==
    call = NoCall =>
        /\ \A d \in DOMAIN ListedChunkCounts : ListedChunkCounts[d] = StoredCount(d)
        /\ (last_call.op = "add_chunks" /\ ~last_call.raised)
              => index_document_total_chunks(last_call.doc) = StoredCount(last_call.doc)

\* MetadataStore.get_document_chunk_indices: SELECT ROW_NUMBER() OVER (ORDER BY
\* id) - 1 FROM chunks WHERE document_id = ? ORDER BY id.  The window function
\* numbers the rows the WHERE clause has left.  Ordinals are counted from 1
\* here, as the positions of the index are.
MS_get_document_chunk_indices(rows, d) ==
    LET OfDoc(r) == r.document_id = d
    IN  [k \in 1..Len(SelectSeq(rows, OfDoc)) |-> k]

\* C26: get_document_chunk_indices(document_id) returns exactly the global
\* ordinals of that document's chunks: an ordinal i is in the result if and
\* only if get_chunk_by_index(i) is a chunk of that document.
C26_ChunkIndicesAreGlobalOrdinals ==
    (mode = "sqlite" /\ call = NoCall) =>
        \A d \in Docs : \A i \in 1..MaxVectors :
            (i \in Range(MS_get_document_chunk_indices(db_chunks, d)))
                <=> /\ MS_get_chunk_by_index(db_chunks, i) # None
                    /\ MS_get_chunk_by_index(db_chunks, i).rows[1].document_id = d

\* rows of a raw-embeddings matrix; None has no row
EmbeddingRows(e) == IF e = None THEN 0 ELSE Len(e.rows)

\* the VectorStore in memory holds one vector and one embeddings row per
\* metadata entry
InMemoryAligned ==
    /\ Len(vs.index) = Len(vs.metadata)
    /\ EmbeddingRows(vs.embeddings) = Len(vs.metadata)

\* C27: for VectorStore, save() followed by a load of the same directory
\* restores the same metadata list and index count together with a raw
\* embeddings matrix of exactly one row per metadata entry, also after the last
\* document was deleted or the index was cleared.
C27_SaveLoadRoundTrip ==
    [][(Save /\ mode = "json" /\ InMemoryAligned) =>
          LET loaded == VS_load_or_create_index(jdisk')
          IN  /\ loaded.metadata = vs.metadata
              /\ Len(loaded.index) = Len(vs.index)
              /\ EmbeddingRows(loaded.embeddings) = Len(loaded.metadata)]_vars

\* the metadata search resolves for ordinal i: metadata[i] in VectorStore,
\* get_chunk_by_index(i) in VectorStoreV2
ResolvedChunk(i) ==
    IF mode = "json"
    THEN IF i \in 1..Len(vs.metadata) THEN Some(<<vs.metadata[i]>>) ELSE None
    ELSE MS_get_chunk_by_index(db_chunks, i)

\* ordinal i resolves to no chunk or to the chunk whose vector is at position i
ResolvesOwnChunk(i) ==
    ResolvedChunk(i) # None
        => l2_normalize(embed_texts(<<ResolvedChunk(i).rows[1].text>>)) = <<IndexOf[i]>>

OrdinalsResolveOwnChunks == \A i \in 1..index_count : ResolvesOwnChunk(i)

\* C28: after any sequence of add_chunks and delete_document calls, for every
\* ordinal i below the index count the metadata that search resolves for i is
\* the chunk that was added together with the vector at position i: a call that
\* returns on a store where this holds leaves a store where it holds.
C28_OrdinalResolvesOwnChunk ==
    [][/\ (/\ \E d \in Docs : DeleteDocument(d)
           /\ index_count = metadata_count
           /\ OrdinalsResolveOwnChunks) => OrdinalsResolveOwnChunks'
       /\ (/\ AddChunksMetadata
           /\ index_count = metadata_count + ChunkCount(call.doc)
           /\ \A i \in 1..metadata_count : ResolvesOwnChunk(i))
              => OrdinalsResolveOwnChunks']_vars

(***************************************************************************)
(* POST /documents/upload, main.py: upload_documents saves each file,      *)
(* calls DocumentIndexer.index_document on it and, when that raises,       *)
(* removes the saved copy and goes on with the next file.  The handler     *)
(* has no await between its first and last statement.                      *)
(***************************************************************************)
MaxFiles == 2                   \* cap on the files of one upload request

\* document NumDocs is a CSV file, the other documents are text files
FormatOf(d) == IF d = NumDocs THEN "csv" ELSE "txt"

\* what a file can hold: a PDF without pages, pages of white space only, a CSV
\* without rows, or the content of a document
Contents ==
    {[kind |-> k, doc |-> 0] : k \in {"no_pages", "blank", "no_rows"}}
        \cup {[kind |-> FormatOf(d), doc |-> d] : d \in Docs}

UploadFiles == [name : Filenames, content : Contents]

\* the branch of index_document: source_format == "csv" and csv_row_level_indexing
IsCsv(content) == content.kind \in {"no_rows", "csv"}

\* len(page_texts) of extract_text, len(csv_rows) of extract_csv_rows
ExtractUnits(content) ==
    CASE content.kind \in {"no_pages", "no_rows"} -> 0
      [] content.kind = "csv" -> ChunkCount(content.doc)
      [] OTHER -> 1

\* a test of the extracted units that lets an empty extraction through
NoUnits_Never(n) == FALSE

\* num_pages == 0, not csv_rows
NoUnits(n) == n = 0

\* index_document up to add_chunks: the error it raises ("" when none) and the
\* chunks it hands to the store
index_document(content) ==
    LET chunks == chunk_document(content.doc)
    IN  IF NoUnits(ExtractUnits(content))
        THEN [error |-> IF IsCsv(content) THEN "Could not extract any rows"
                        ELSE "Could not extract any pages",
              chunks |-> <<>>]
        ELSE IF ~IsCsv(content) /\ Len(chunks) = 0
        THEN [error |-> "Could not create any chunks", chunks |-> <<>>]
        ELSE [error |-> "", chunks |-> chunks]

\* the stores of the collection's indexer, as one value
UploadStore(s, index, rows) == [vs |-> s, v2_index |-> index, db_chunks |-> rows]

\* add_chunks of the collection's store; part "index" stops after self.index.add,
\* where the rest of add_chunks raises
UploadAddChunks(st, chunks, part) ==
    LET embeddings == embed_texts(Texts(chunks))
    IN  IF Len(chunks) = 0 THEN st
        ELSE IF mode = "json"
        THEN [st EXCEPT !.vs =
                 IF part = "index" THEN VS_add_chunks_index(@, chunks, embeddings)
                 ELSE VS_add_chunks_rest(VS_add_chunks_index(@, chunks, embeddings),
                                         chunks, embeddings)]
        ELSE [st EXCEPT !.v2_index = V2_add_chunks_index(@, chunks, embeddings),
                        !.db_chunks = IF part = "index" THEN @
                                      ELSE MS_add_chunks(@, chunks)]

\* where a file of the request fails besides the checks of index_document:
\* inside add_chunks after the index append, or in collection_service.add_document
FailPoints == {"none", "add_chunks", "register"}

\* one pass of the for loop: the stores and the directory after it, and the
\* entry of indexed_docs or failed_docs
UploadOneFile(st, dir, file, fail) ==
    LET saved == [dir EXCEPT ![file.name] = file.content]
        cleaned == [dir EXCEPT ![file.name] = AbsentContent]
        doc == index_document(file.content)
        Failed(after, error) ==
            [st |-> after, dir |-> cleaned,
             result |-> [outcome |-> "failed", error |-> error, total_chunks |-> 0,
                         changed |-> after # st]]
    IN  IF doc.error # "" THEN Failed(st, doc.error)
        ELSE IF fail = "add_chunks" /\ Len(doc.chunks) > 0
        THEN Failed(UploadAddChunks(st, doc.chunks, "index"), "add_chunks failed")
        ELSE IF fail = "register"
        THEN Failed(UploadAddChunks(st, doc.chunks, "all"), "add_document failed")
        ELSE [st |-> UploadAddChunks(st, doc.chunks, "all"), dir |-> saved,
              result |-> [outcome |-> "indexed", error |-> "",
                          total_chunks |-> Len(doc.chunks),
                          changed |-> UploadAddChunks(st, doc.chunks, "all") # st]]

RECURSIVE UploadLoop(_, _, _, _, _)
\* the for loop of upload_documents from file i on
UploadLoop(st, dir, files, fails, i) ==
    IF i > Len(files) THEN [st |-> st, dir |-> dir, results |-> <<>>]
    ELSE LET one == UploadOneFile(st, dir, files[i], fails[i])
             rest == UploadLoop(one.st, one.dir, files, fails, i + 1)
         IN  [rest EXCEPT !.results = <<one.result>> \o @]

RECURSIVE TotalChunks(_)
TotalChunks(files) ==
    IF files = <<>> THEN 0
    ELSE ChunkCount(Head(files).content.doc) + TotalChunks(Tail(files))

\* the chunks and vectors of document d that the collection's store holds
HoldsChunkOf(d) == \E i \in 1..Len(StoredChunks) : StoredChunks[i].document_id = d
HoldsVectorOf(d) == \E p \in 1..Len(IndexOf) : IndexOf[p].of[2] = d

\* upload_documents; HTTP 500 when every file failed, 201 otherwise
UploadDocuments(files, fails) ==
    /\ call = NoCall
    /\ Len(fails) = Len(files)
    /\ index_count + TotalChunks(files) <= MaxVectors
    /\ LET end == UploadLoop(UploadStore(vs, v2_index, db_chunks), doc_files,
                             files, fails, 1)
           indexed_docs == {i \in 1..Len(files) : end.results[i].outcome = "indexed"}
       IN  /\ vs' = end.st.vs
           /\ v2_index' = end.st.v2_index
           /\ db_chunks' = end.st.db_chunks
           /\ doc_files' = end.dir
           /\ IF indexed_docs = {} THEN UNCHANGED <<jdisk, v2disk_index>>
              ELSE IF mode = "json"
              THEN jdisk' = VS_save(end.st.vs, jdisk) /\ UNCHANGED v2disk_index
              ELSE v2disk_index' = Some(end.st.v2_index) /\ UNCHANGED jdisk
           /\ upload_out' = [files |-> files, results |-> end.results,
                             before |-> {d \in Docs : HoldsChunkOf(d) \/ HoldsVectorOf(d)},
                             status |-> IF indexed_docs = {} THEN 500 ELSE 201,
                             saved |-> indexed_docs # {}]
    /\ UNCHANGED <<mode, call, last_call>>
    /\ UNCHANGED <<reindexVars, repairVars, diagVars, searchVars, chunkVars>>

\* a file of a request with the point where it fails; a file that index_document
\* refuses has no later point to fail at
UploadTries ==
    {t \in [file : UploadFiles, fail : FailPoints] :
        index_document(t.file.content).error # "" => t.fail = "none"}

UploadNext ==
    \E n \in 1..MaxFiles : \E tries \in [1..n -> UploadTries] :
        UploadDocuments([i \in 1..n |-> tries[i].file], [i \in 1..n |-> tries[i].fail])

UploadInit ==
    /\ StoreInit
    /\ ReindexIdle
    /\ RepairIdle
    /\ DiagIdle
    /\ UploadIdle
    /\ SearchIdle /\ ChunkIdle

SpecUpload == UploadInit /\ [][UploadNext]_vars

(***************************************************************************)
(* Claims about uploads (checked under SpecUpload)                         *)
(***************************************************************************)
\* file i of the last request produced no unit or no chunk
NothingToIndex(i) ==
    LET content == upload_out.files[i].content
    IN  ExtractUnits(content) = 0 \/ Len(chunk_document(content.doc)) = 0

\* C18: index_document raises an error, and leaves the vector index and the
\* metadata unchanged, whenever extraction yields zero units (pages or CSV rows)
\* or chunking yields zero chunks; it never returns a document with zero chunks.
C18_NoZeroChunkDocuments ==
    \A i \in 1..Len(upload_out.results) :
        LET r == upload_out.results[i]
        IN  /\ NothingToIndex(i) => (r.outcome = "failed" /\ r.error # "" /\ ~r.changed)
            /\ r.outcome = "indexed" => r.total_chunks > 0

\* C18 witness: a request held a CSV file without rows after a good file, and
\* the CSV file was refused
C18_Witness_EmptyCsvRefused ==
    /\ Len(upload_out.files) = 2
    /\ upload_out.results[1].outcome = "indexed"
    /\ upload_out.files[2].content.kind = "no_rows"
    /\ upload_out.results[2].outcome = "failed"

\* positions of the last request by outcome
IndexedAt == {i \in 1..Len(upload_out.results) : upload_out.results[i].outcome = "indexed"}
FailedAt == {i \in 1..Len(upload_out.results) : upload_out.results[i].outcome = "failed"}

\* C19: in a multi-file upload, a file that fails at any step does not undo or
\* hide the files indexed before it and does not stop the files after it, and
\* once the request ends neither the failed file's saved copy nor any chunk or
\* vector of the failed file remains in the document directory or the index.
C19_FailedFileIsolatedAndCleaned ==
    Len(upload_out.files) >= 2 =>
    /\ Len(upload_out.results) = Len(upload_out.files)
    /\ \A i \in IndexedAt :
          LET f == upload_out.files[i]
          IN  /\ HoldsChunkOf(f.content.doc)
              /\ HoldsVectorOf(f.content.doc)
              /\ (\A k \in FailedAt : upload_out.files[k].name # f.name)
                    => doc_files[f.name] # AbsentContent
    /\ \A k \in FailedAt :
          LET f == upload_out.files[k]
              before == upload_out.before
          IN  /\ (\A i \in IndexedAt : upload_out.files[i].name # f.name)
                    => doc_files[f.name] = AbsentContent
              /\ (/\ f.content.doc # 0
                  /\ f.content.doc \notin before
                  /\ \A i \in IndexedAt : upload_out.files[i].content.doc # f.content.doc)
                    => (~HoldsChunkOf(f.content.doc) /\ ~HoldsVectorOf(f.content.doc))


(***************************************************************************)
(* DocumentIndexer.search with optional reranking by the AI service.  The  *)
(* reranker's answer is text written by a language model: any list of      *)
(* integers, something that is no list, or a provider error.               *)
(***************************************************************************)
MaxReply == 2                   \* longest list of indices the reranker answers
RerankFetchFactor == 5          \* fetch_k = min(top_k * 5, 50)
RerankFetchCap == 50

Replies ==
    {[kind |-> k, indices |-> <<>>] : k \in {"error", "unparsable"}}
        \cup {[kind |-> "list", indices |-> q] :
                 q \in UNION {[1..n -> -1..MaxVectors] : n \in 0..MaxReply}}

\* s[:n]
Prefix(s, n) == SubSeq(s, 1, Min(n, Len(s)))

\* AIService.rerank_results: reranked_indices; an answer that does not parse is
\* replaced by the indices of results[:top_k]
rerank_results(reply, results, top_k) ==
    IF reply.kind = "list" THEN reply.indices
    ELSE [i \in 1..Min(top_k, Len(results)) |-> i - 1]

\* a rerank step that keeps every fetched result when the call raises: C21
\* must not survive it
rerank_step_KeepFetched(results, rerank, reply, top_k) ==
    IF rerank /\ Len(results) > 0 /\ reply.kind = "list"
    THEN Prefix(results, top_k)
    ELSE results

\* DocumentIndexer.search from the rerank step on: the results it returns
rerank_step(results, rerank, reply, top_k) ==
    IF rerank /\ Len(results) > 0
    THEN IF reply.kind = "error" THEN Prefix(results, top_k)
         ELSE LET InRange(i) == 0 <= i /\ i < Len(results)
                  valid_indices ==
                      SelectSeq(rerank_results(reply, results, top_k), InRange)
              IN  IF valid_indices # <<>>
                  THEN [k \in 1..Len(valid_indices) |-> results[valid_indices[k] + 1]]
                  ELSE Prefix(results, top_k)
    ELSE Prefix(results, top_k)

\* what the provider does with the synthesis prompt: an answer or an error
SynthReplies == {"text", "error"}

\* DocumentIndexer.search, the synthesis step: the synthesis it returns ("None"
\* when no synthesis was asked for, nothing was found or the call raised)
synthesize_step(results, synthesize, synth) ==
    IF synthesize /\ Len(results) > 0
    THEN IF synth = "error" THEN "None" ELSE "text"
    ELSE "None"

\* DocumentIndexer.search(query, top_k, ai_service, ai_options); rerank stands
\* for ai_active and ai_options.rerank, synthesize for ai_active and
\* ai_options.synthesize
IndexerSearch(d, k, top_k, rerank, reply, synthesize, synth) ==
    /\ call = NoCall
    /\ LET query == embed_texts(<<chunk_document(d)[k].text>>)[1]
           fetch_k == IF rerank THEN Min(top_k * RerankFetchFactor, RerankFetchCap)
                      ELSE top_k
           found == IF mode = "json" THEN VS_search(vs, query, fetch_k)
                    ELSE V2_search(v2_index, db_chunks, query, fetch_k)
           results == IF found.raised THEN <<>>
                      ELSE rerank_step(found.hits, rerank, reply, top_k)
       IN  search_out' =
               [top_k |-> top_k, rerank |-> rerank, reply |-> reply,
                synthesize |-> synthesize, synth |-> synth,
                raised |-> found.raised,
                hits |-> IF found.raised THEN <<>> ELSE found.hits,
                results |-> results,
                synthesis |-> IF found.raised THEN "None"
                              ELSE synthesize_step(results, synthesize, synth)]
    /\ UNCHANGED <<storeVars, reindexVars, repairVars, diagVars, uploadVars, chunkVars>>

\* one search request against the loaded store; a search changes nothing in
\* the store, so a later request sees what the first one saw
SearchNext ==
    /\ search_out = NoSearch
    /\ \E d \in Docs : \E k \in 1..ChunkCount(d) : \E top_k \in 1..MaxVectors :
           \E rerank \in BOOLEAN :
               \E reply \in IF rerank THEN Replies ELSE {NoSearch.reply} :
                   \E synthesize \in BOOLEAN :
                       \E synth \in IF synthesize THEN SynthReplies ELSE {NoSearch.synth} :
                           IndexerSearch(d, k, top_k, rerank, reply, synthesize, synth)

\* a collection whose store holds the documents indexed and saved earlier
SearchInit ==
    /\ mode \in {"json", "sqlite"}
    /\ \E q \in DocSeqs :
          LET chunks == ChunksOf(q)
              vectors == l2_normalize(embed_texts(Texts(chunks)))
          IN  IF mode = "json"
              THEN /\ jdisk = [index |-> Some(vectors), metadata |-> Some(chunks),
                               embeddings |-> Some(vectors)]
                   /\ v2_index = <<>>
                   /\ db_chunks = <<>>
                   /\ v2disk_index = Missing
              ELSE /\ jdisk = [index |-> Missing, metadata |-> Missing,
                               embeddings |-> Missing]
                   /\ v2_index = vectors
                   /\ db_chunks = chunks
                   /\ v2disk_index = Some(vectors)
    /\ vs = VS_load_or_create_index(jdisk)
    /\ call = NoCall
    /\ last_call = NoResult
    /\ ReindexIdle
    /\ RepairIdle
    /\ DiagIdle /\ UploadIdle /\ SearchIdle /\ ChunkIdle

SpecSearch == SearchInit /\ [][SearchNext]_vars

\* C20: DocumentIndexer.search returns at most top_k results for every query,
\* with or without reranking and whatever list of indices the reranker returns.
C20_AtMostTopKResults ==
    Len(search_out.results) <= search_out.top_k

\* the rerank call of the last search raised
RerankRaised ==
    /\ search_out.rerank
    /\ search_out.reply.kind = "error"
    /\ Len(search_out.hits) > 0

\* the synthesis call of the last search raised
SynthesisRaised ==
    /\ search_out.synthesize
    /\ search_out.synth = "error"
    /\ Len(search_out.results) > 0

\* C21: a failure of the external AI call never aborts a search: when the
\* rerank call raises, search returns the first top_k vector-search results in
\* their similarity order; when the synthesis call raises, it returns the
\* results of the rerank step unchanged and no synthesis text.
C21_AIFailureFallsBack ==
    /\ RerankRaised =>
           /\ ~search_out.raised
           /\ search_out.results = Prefix(search_out.hits, search_out.top_k)
    /\ SynthesisRaised =>
           /\ ~search_out.raised
           /\ search_out.synthesis = "None"
           /\ search_out.results =
                  rerank_step(search_out.hits, search_out.rerank,
                              search_out.reply, search_out.top_k)

\* the reranker failed over more fetched results than top_k, and so did the
\* synthesis
C21_Witness_BothCallsRaised ==
    /\ RerankRaised
    /\ SynthesisRaised
    /\ Len(search_out.hits) > search_out.top_k


TerminalStatus == {"completed", "failed"}

\* a status a job may take next: running after pending, completed or failed
\* after running; the worker's first step writes running and, without an await
\* in between, the status it ends with
StatusMove(old, new) ==
    \/ old = "pending" /\ new \in {"running"} \cup TerminalStatus
    \/ old = "running" /\ new \in TerminalStatus

\* C25: a reindex job's status only moves pending -> running -> completed or
\* failed; once a job is completed or failed, no later update changes its status.
C25_JobStatusOnlyMovesForward ==
    [][/\ Len(jobs') >= Len(jobs)
       /\ \A j \in 1..Len(jobs) :
             jobs'[j].status # jobs[j].status
                 => StatusMove(jobs[j].status, jobs'[j].status)]_vars

\* a later job is running while an earlier one is already completed or failed
C25_Witness_UpdateAfterTerminal ==
    \E j, k \in 1..Len(jobs) :
        /\ j < k
        /\ jobs[j].status \in TerminalStatus
        /\ jobs[k].status = "running"

(***************************************************************************)
(* TextChunker._chunk_text.  A text is its length, the character that      *)
(* fills it and the few positions (counted from 0) that hold another       *)
(* character; a chunk is the span of the text it was cut from.             *)
(***************************************************************************)
MaxTextLen == 12                \* longest text given to the small chunkers
MaxMarks == 2                   \* positions of a text that differ from its fill
MaxChunks == 13                 \* cap on the length of the chunks list

Whitespace == {" ", "\n"}
Chars == {"x", " ", ".", "\n"}
Fills == {"x", " "}

\* for delimiter in [". ", "! ", "? ", "\n\n", "\n"]
Delimiters == << <<".", " ">>, <<"!", " ">>, <<"?", " ">>, <<"\n", "\n">>, <<"\n">> >>

RECURSIVE MarkSets(_, _, _)
MarkSets(positions, fill, k) ==
    IF k = 0 THEN {{}}
    ELSE LET smaller == MarkSets(positions, fill, k - 1)
             After(M) == {q \in positions : \A m \in M : m[1] < q}
         IN  smaller \cup
                 UNION {{M \cup {<<p, c>>} : p \in After(M), c \in Chars \ {fill}} :
                           M \in smaller}

SourceTexts(n, positions) ==
    UNION {{[len |-> n, fill |-> f, marks |-> M] :
                M \in MarkSets(positions, f, MaxMarks)} : f \in Fills}

\* text[i]
CharAt(text, i) ==
    IF \E m \in text.marks : m[1] = i
    THEN (CHOOSE m \in text.marks : m[1] = i)[2]
    ELSE text.fill

\* text[lo:hi].rfind(delimiter)
rfind(text, lo, hi, delimiter) ==
    LET found == {p \in 0..(hi - lo - Len(delimiter)) :
                     \A k \in 1..Len(delimiter) :
                         CharAt(text, lo + p + k - 1) = delimiter[k]}
    IN  IF found = {} THEN -1 ELSE CHOOSE p \in found : \A q \in found : q <= p

\* int(self.chunk_size * 0.2): the double nearest to 0.2 is above 0.2, so for a
\* positive chunk_size the product is never below the exact fifth
BoundarySearchLen(chunk_size) == chunk_size \div 5

\* the end of the window that starts at start: start + chunk_size, moved back
\* to a sentence or word boundary when the window is not the last one
WindowEnd(text, chunk_size, start) ==
    LET end == start + chunk_size
        boundary_search_start == end - BoundarySearchLen(chunk_size)
        Last(d) == rfind(text, boundary_search_start, end, d)
        hits == {i \in 1..Len(Delimiters) : Last(Delimiters[i]) # -1}
        last_space == Last(<<" ">>)
    IN  IF end < text.len
        THEN IF hits # {}
             THEN LET i == CHOOSE h \in hits : \A g \in hits : h <= g
                  IN  boundary_search_start + Last(Delimiters[i]) + Len(Delimiters[i])
             ELSE IF last_space # -1 THEN boundary_search_start + last_space + 1
                  ELSE end
        ELSE end

\* text[start:end].strip(): the span left, first = last when nothing is left
Strip(text, start, end) ==
    LET kept == {i \in start..(Min(end, text.len) - 1) : CharAt(text, i) \notin Whitespace}
    IN  IF kept = {} THEN [first |-> start, last |-> start]
        ELSE [first |-> CHOOSE i \in kept : \A j \in kept : i <= j,
              last |-> 1 + CHOOSE i \in kept : \A j \in kept : j <= i]

\* start for the next iteration
NextStart(chunk_overlap, chunk_size, end, emitted) ==
    LET moved == IF end - chunk_overlap < 0 THEN 0 ELSE end - chunk_overlap
    IN  IF emitted > 0 /\ moved <= end - chunk_size THEN end ELSE moved

\* _chunk_text up to the loop: a text no longer than chunk_size is returned whole
ChunkTextCall ==
    /\ ck.pc = "call"
    /\ ck' = IF ck.text.len <= ck.chunk_size
             THEN [ck EXCEPT !.pc = "done",
                             !.chunks = <<[start |-> 0, end |-> ck.text.len,
                                           first |-> 0, last |-> ck.text.len]>>]
             ELSE [ck EXCEPT !.pc = "loop", !.start = 0]
    /\ UNCHANGED <<storeVars, reindexVars, repairVars, diagVars, uploadVars, searchVars>>

\* one iteration of while start < len(text)
ChunkTextIterate ==
    /\ ck.pc = "loop"
    /\ ck.start < ck.text.len
    /\ Len(ck.chunks) < MaxChunks
    /\ LET end == WindowEnd(ck.text, ck.chunk_size, ck.start)
           chunk == Strip(ck.text, ck.start, end)
           chunks == IF chunk.first < chunk.last
                     THEN Append(ck.chunks,
                                 [start |-> ck.start, end |-> end,
                                  first |-> chunk.first, last |-> chunk.last])
                     ELSE ck.chunks
       IN  ck' = [ck EXCEPT !.chunks = chunks,
                            !.start = NextStart(ck.chunk_overlap, ck.chunk_size,
                                                end, Len(chunks))]
    /\ UNCHANGED <<storeVars, reindexVars, repairVars, diagVars, uploadVars, searchVars>>

\* the loop ends: return chunks
ChunkTextReturn ==
    /\ ck.pc = "loop"
    /\ ck.start >= ck.text.len
    /\ ck' = [ck EXCEPT !.pc = "done"]
    /\ UNCHANGED <<storeVars, reindexVars, repairVars, diagVars, uploadVars, searchVars>>

ChunkNext == ChunkTextCall \/ ChunkTextIterate \/ ChunkTextReturn

\* TextChunker.__init__ accepts every pair with chunk_overlap < chunk_size
ChunkSizes == {3, 5, 10}
ChunkConfigs ==
    UNION {{[chunk_size |-> s, chunk_overlap |-> o] : o \in -1..(s - 1)} :
              s \in ChunkSizes}

\* the documented scenario: 1,300 characters, chunk_size 600, chunk_overlap 100
ScenarioConfig == [chunk_size |-> 600, chunk_overlap |-> 100]
ScenarioTexts == SourceTexts(1300, {480, 598, 861, 1099})

ChunkInit ==
    /\ \E c \in ChunkConfigs \cup {ScenarioConfig} :
          \E text \in IF c = ScenarioConfig THEN ScenarioTexts
                      ELSE UNION {SourceTexts(n, 0..(n - 1)) : n \in 0..MaxTextLen} :
              ck = [chunk_size |-> c.chunk_size, chunk_overlap |-> c.chunk_overlap,
                    text |-> text, pc |-> "call", start |-> 0, chunks |-> <<>>]
    /\ mode = "json"
    /\ StoreInit
    /\ ReindexIdle
    /\ RepairIdle
    /\ DiagIdle /\ UploadIdle /\ SearchIdle

SpecChunk == ChunkInit /\ [][ChunkNext]_vars

\* C22: for every configuration the constructor accepts and every text,
\* _chunk_text terminates, and the window start strictly increases from one
\* loop iteration to the next.
C22_StartStrictlyIncreases ==
    [][ChunkTextIterate => ck'.start > ck.start]_vars

\* _chunk_text has returned its chunks
ChunkTextDone == ck.pc = "done"

\* every character of text[lo:hi] is whitespace
OnlyWhitespace(text, lo, hi) ==
    \A i \in lo..(Min(hi, text.len) - 1) : CharAt(text, i) \in Whitespace

\* C23: for every valid configuration and every text, the windows of the
\* emitted chunks cover the source text without gaps: the first window starts
\* at position 0, each next window starts at or before the end of the previous
\* one, and the last window reaches the end of the text; what lies outside the
\* emitted windows is at most whitespace that was trimmed.
C23_WindowsCoverText ==
    ChunkTextDone =>
        LET n == Len(ck.chunks)
        IN  IF n = 0 THEN OnlyWhitespace(ck.text, 0, ck.text.len)
            ELSE /\ OnlyWhitespace(ck.text, 0, ck.chunks[1].start)
                 /\ \A i \in 1..(n - 1) :
                       OnlyWhitespace(ck.text, ck.chunks[i].end, ck.chunks[i + 1].start)
                 /\ OnlyWhitespace(ck.text, ck.chunks[n].end, ck.text.len)

\* C24: with chunk_size 600 and chunk_overlap 100, chunking a 1,300-character
\* text yields exactly 3 chunks of at most 600 characters each, wherever the
\* sentence delimiters and the whitespace of the text are.
C24_ScenarioYieldsThreeChunks ==
    (/\ ChunkTextDone
     /\ ck.chunk_size = ScenarioConfig.chunk_size
     /\ ck.chunk_overlap = ScenarioConfig.chunk_overlap
     /\ ck.text.len = 1300) =>
        /\ Len(ck.chunks) = 3
        /\ \A i \in 1..Len(ck.chunks) :
              ck.chunks[i].last - ck.chunks[i].first <= ScenarioConfig.chunk_size

\* C30: for every valid configuration and every text longer than chunk_size,
\* no emitted chunk's window lies inside the window of the chunk emitted just
\* before it: after the window that reaches the end of the text, no further
\* chunk is emitted.
C30_NoChunkInsidePrevious ==
    (ChunkTextDone /\ ck.text.len > ck.chunk_size) =>
        \A i \in 1..(Len(ck.chunks) - 1) :
            /\ ck.chunks[i].end < ck.text.len
            /\ ~(/\ ck.chunks[i].start <= ck.chunks[i + 1].start
                 /\ Min(ck.chunks[i + 1].end, ck.text.len)
                        <= Min(ck.chunks[i].end, ck.text.len))

Init == StoreInit /\ ReindexIdle /\ RepairIdle /\ DiagIdle /\ UploadIdle /\ SearchIdle /\ ChunkIdle
Next == StoreNext
Spec == Init /\ [][Next]_vars

\* an index directory written before embeddings.npy was kept: faiss.index and
\* metadata.json of some documents and no embeddings file, loaded at start-up
LegacyInit ==
    /\ mode = "json"
    /\ \E q \in DocSeqs :
          jdisk = [index |-> Some(l2_normalize(embed_texts(Texts(ChunksOf(q))))),
                   metadata |-> Some(ChunksOf(q)),
                   embeddings |-> Missing]
    /\ vs = VS_load_or_create_index(jdisk)
    /\ v2_index = <<>>
    /\ db_chunks = <<>>
    /\ v2disk_index = Missing
    /\ call = NoCall
    /\ last_call = NoResult
    /\ ReindexIdle
    /\ RepairIdle
    /\ DiagIdle /\ UploadIdle /\ SearchIdle /\ ChunkIdle

SpecLegacy == LegacyInit /\ [][Next]_vars

====
